---- MODULE Spec2Model ----
(***************************************************************************)
(* A model of the ElfsquadShowroom class of src/src/index.ts: an iframe    *)
(* created inside a container, outbound commands posted into the iframe's  *)
(* content window, and inbound window messages dispatched to subscribed    *)
(* callbacks.  JavaScript values are records tagged by the field t.        *)
(***************************************************************************)
EXTENDS Integers, Sequences, FiniteSets

\* ------------------------------------------------------------------ bounds
\* Total number of callback registrations over all instances and events.
MaxSubs == 2
\* Total number of messages posted into content windows.
MaxPosts == 2
\* Number of times in a row the same message is delivered.
MaxDeliver == 2

\* The instances a host page constructs (new ElfsquadShowroom(...)).
Instances == {"A", "B"}

\* ------------------------------------------------------- JavaScript values
Undefined == [t |-> "undefined"]
Null == [t |-> "null"]
Str(s) == [t |-> "string", s |-> s]
Num(n) == [t |-> "number", n |-> n]
Obj(props) == [t |-> "object", props |-> props]
Arr(items, props) == [t |-> "array", items |-> items, props |-> props]

\* v.p for a value that is neither null nor undefined: an own property of an
\* object or array, undefined on a primitive.
Get(v, p) ==
  IF v.t \in {"object", "array"} /\ p \in DOMAIN v.props THEN v.props[p]
  ELSE Undefined

\* v.p throws a TypeError on null and undefined.
GetThrows(v) == v.t \in {"null", "undefined"}

\* ------------------------------------------------------------ ViewerEvent
ScreenshotTaken == "elfsquad.visualization.screenshotTaken"
ConfigurationUpdated == "elfsquad.configurationUpdated"
RequestQuote == "custom:REQUEST_QUOTE"
ViewerEvent == {ScreenshotTaken, ConfigurationUpdated, RequestQuote}

\* ------------------------------------------------------- inbound payloads
TxtQuoteAbc == "{\"action\":\"createQuotation\",\"argument\":\"abc123\"}"
TxtQuoteNum == "{\"action\":\"createQuotation\",\"argument\":42}"
TxtQuoteNoArg == "{\"action\":\"createQuotation\"}"
TxtOther == "{\"action\":\"other\"}"
TxtNull == "null"
TxtFive == "5"
TxtNotJson == "not json"
TxtObject == "[object Object]"
TxtNamed == "{\"name\":\"elfsquad.visualization.screenshotTaken\",\"args\":{\"image\":\"png1\"}}"

Image1 == Obj([image |-> Str("png1")])
Image2 == Obj([image |-> Str("png2")])
Config1 == Obj([id |-> Str("cfg1")])

\* JSON.parse of a text: [ok, value], ok FALSE for a SyntaxError.
JSONparse(text) ==
  CASE text = TxtQuoteAbc ->
         [ok |-> TRUE, value |-> Obj([action |-> Str("createQuotation"), argument |-> Str("abc123")])]
    [] text = TxtQuoteNum ->
         [ok |-> TRUE, value |-> Obj([action |-> Str("createQuotation"), argument |-> Num(42)])]
    [] text = TxtQuoteNoArg ->
         [ok |-> TRUE, value |-> Obj([action |-> Str("createQuotation")])]
    [] text = TxtOther ->
         [ok |-> TRUE, value |-> Obj([action |-> Str("other")])]
    [] text = TxtNull -> [ok |-> TRUE, value |-> Null]
    [] text = TxtFive -> [ok |-> TRUE, value |-> Num(5)]
    [] text = TxtNamed ->
         [ok |-> TRUE, value |-> Obj([name |-> Str(ScreenshotTaken), args |-> Image1])]
    [] OTHER -> [ok |-> FALSE, value |-> Undefined]

\* The string JSON.parse makes of its argument before parsing it.
\* An array of strings joins its items; the arrays here hold at most one.
StringOf(v) ==
  CASE v.t = "string" -> v.s
    [] v.t = "null" -> "null"
    [] v.t = "undefined" -> "undefined"
    [] v.t = "number" -> IF v.n = 5 THEN TxtFive ELSE "42"
    [] v.t = "array" -> IF Len(v.items) = 1 THEN v.items[1] ELSE ""
    [] OTHER -> TxtObject

\* The values of event.data the host window receives.
StructuredMessages ==
  { Obj([name |-> Str(ScreenshotTaken), args |-> Image1]),
    Obj([name |-> Str(ScreenshotTaken), args |-> Image2]),
    Obj([name |-> Str(ConfigurationUpdated), args |-> Config1]) }

UnknownMessages ==
  { Obj([name |-> Str("elfsquad.visualization.home"), args |-> Image1]),
    Obj([name |-> Str(RequestQuote), args |-> Obj([configurationId |-> Str("abc123")])]) }

RawMessages ==
  { Str(TxtQuoteAbc), Str(TxtQuoteNum), Str(TxtQuoteNoArg), Str(TxtOther),
    Str(TxtNull), Str(TxtNotJson), Num(5) }

\* An array keeps its own properties through the structured clone: this one
\* has the name and args of a screenshot message and one item, the text of a
\* quote message.
ArrayMessages ==
  { Arr(<<TxtQuoteAbc>>, [name |-> Str(ScreenshotTaken), args |-> Image1]) }

Messages == StructuredMessages \cup UnknownMessages \cup RawMessages \cup ArrayMessages

\* ---------------------------------------------------------------- the DOM
\* div1 is an HTMLElement the host page attaches to and detaches from the
\* document; svg1 is an SVGElement (an Element, no HTMLElement) of the document.
Selectors == {"#showroom", "#missing", "svg"}
Urls == {"https://automotive.elfsquad.io"}

\* What options.container can be: a selector string, the element div1, or
\* (from untyped JavaScript) null.
Containers ==
  {[kind |-> "selector", v |-> s] : s \in Selectors}
    \cup {[kind |-> "element", v |-> "div1"], [kind |-> "element", v |-> "null"]}

IsHTMLElement(node) == node = "div1"

\* ------------------------------------------------------------- callbacks
\* f returns normally, bad throws, sub subscribes f to the event it is invoked
\* for and returns.
Callbacks == {"f", "bad", "sub"}

VARIABLES
  status,         \* per instance: "none" (not constructed), "live", "failed"
  container,      \* per instance: this.container
  nativeElement,  \* per instance: this.nativeElement, an index into iframes (0: unset)
  callbacks,      \* per instance: this.callbacks, event key -> sequence of callbacks
  subscribed,     \* per instance and event key: the callbacks subscribed, in call order
  attached,       \* whether div1 is in the document
  iframes,        \* the iframe elements created so far
  listeners,      \* the window's message listeners, in registration order
  posted,         \* per instance: messages posted into the iframe's content window
  sends,          \* per instance: outbound command calls that returned normally
  streak,         \* how many times in a row the last message has been delivered
  calls,          \* per registration: times it was invoked in this streak
  joined,         \* per subscription: the deliveries of this streak it came after
  last,           \* the last operation: its kind, instance and arguments
  refused,        \* per instance: whether a command ever failed for want of a window
  thrown,         \* the error the last operation threw to its caller ("" for none)
  wire,           \* what the last operation posted
  event,          \* event.data of the last delivered message
  invoked,        \* the callback invocations of the last delivery, in order
  uncaught        \* the listeners an error escaped from in the last delivery

vars ==
  <<status, container, nativeElement, callbacks, subscribed, attached, iframes, listeners,
    posted, sends, streak, calls, joined, last, refused, thrown, wire, event, invoked,
    uncaught>>

EmptyRegistry == [k \in {} |-> <<>>]
NoArg == [none |-> TRUE]
NoWire == [inst |-> "", data |-> Undefined, targetOrigin |-> ""]

Init ==
  /\ status = [i \in Instances |-> "none"]
  /\ container = [i \in Instances |-> "null"]
  /\ nativeElement = [i \in Instances |-> 0]
  /\ callbacks = [i \in Instances |-> EmptyRegistry]
  /\ subscribed = [i \in Instances |-> [key \in ViewerEvent |-> <<>>]]
  /\ attached \in BOOLEAN
  /\ iframes = <<>>
  /\ listeners = <<>>
  /\ posted = [i \in Instances |-> 0]
  /\ sends = [i \in Instances |-> 0]
  /\ streak = 0
  /\ calls = [i \in Instances |-> EmptyRegistry]
  /\ joined = [i \in Instances |-> [key \in ViewerEvent |-> <<>>]]
  /\ last = [op |-> "init", inst |-> "", arg |-> NoArg]
  /\ refused = [i \in Instances |-> FALSE]
  /\ thrown = ""
  /\ wire = NoWire
  /\ event = Undefined
  /\ invoked = <<>>
  /\ uncaught = <<>>

\* ------------------------------------------------------------ construction
QuerySelector(sel) ==
  CASE sel = "#showroom" -> IF attached THEN "div1" ELSE "null"
    [] sel = "svg" -> "svg1"
    [] OTHER -> "null"

\* Whether a node is in the document.
Connected(node) == node = "svg1" \/ (node = "div1" /\ attached)

\* Mutant of getContainer: the element is not compared with null.
getContainerNoNull(options) ==
  IF options.container.kind = "selector"
  THEN LET element == QuerySelector(options.container.v) IN
       IF ~IsHTMLElement(element)
       THEN [err |-> "Container must be an HTMLElement", node |-> "null"]
       ELSE [err |-> "", node |-> element]
  ELSE [err |-> "", node |-> options.container.v]

\* Mutant of getContainer: the element is not tested with instanceof.
getContainerNoType(options) ==
  IF options.container.kind = "selector"
  THEN LET element == QuerySelector(options.container.v) IN
       IF element = "null" THEN [err |-> "Container not found", node |-> "null"]
       ELSE [err |-> "", node |-> element]
  ELSE [err |-> "", node |-> options.container.v]

\* getContainer: [err, node], err "" when it returns node.
getContainer(options) ==
  IF options.container.kind = "selector"
  THEN LET element == QuerySelector(options.container.v) IN
       IF element = "null" THEN [err |-> "Container not found", node |-> "null"]
       ELSE IF ~IsHTMLElement(element)
            THEN [err |-> "Container must be an HTMLElement", node |-> "null"]
            ELSE [err |-> "", node |-> element]
  ELSE [err |-> "", node |-> options.container.v]

\* Mutant of NewIframe: src is not set.
NewIframeBlank(options) ==
  [src |-> "about:blank", parent |-> "none",
   style |-> [width |-> "100%", height |-> "100%", border |-> "none",
              margin |-> "0", padding |-> "0", display |-> "block"]]

\* document.createElement('iframe') with the src and style render gives it.
NewIframe(options) ==
  [src |-> options.url, parent |-> "none",
   style |-> [width |-> "100%", height |-> "100%", border |-> "none",
              margin |-> "0", padding |-> "0", display |-> "block"]]

\* render: the iframe it created, and the TypeError of appendChild on null.
render(options, node) ==
  IF node = "null"
  THEN [err |-> "TypeError", iframe |-> NewIframe(options)]
  ELSE [err |-> "", iframe |-> [NewIframe(options) EXCEPT !.parent = node]]

\* The listeners registerEventListeners adds to the window, in order.
registerEventListeners(i) ==
  << [inst |-> i, kind |-> "named", key |-> "elfsquad.visualization.screenshotTaken",
      dispatch |-> ScreenshotTaken],
     [inst |-> i, kind |-> "named", key |-> "elfsquad.configurationUpdated",
      dispatch |-> ConfigurationUpdated],
     [inst |-> i, kind |-> "legacy", key |-> "", dispatch |-> RequestQuote] >>

\* The counters of a registry, all zero.
Zeros(cbs) ==
  [i \in Instances |-> [key \in DOMAIN cbs[i] |-> [k \in DOMAIN cbs[i][key] |-> 0]]]

\* What an operation that delivers nothing leaves of the last delivery.
NoDelivery ==
  /\ event' = Undefined
  /\ invoked' = <<>>
  /\ uncaught' = <<>>
  /\ streak' = 0
  /\ calls' = Zeros(callbacks')
  /\ joined' = Zeros(subscribed')

Quiet ==
  /\ wire' = NoWire
  /\ NoDelivery

\* new ElfsquadShowroom(options)
Construct(i, options) ==
  /\ status[i] = "none"
  /\ i = "B" => status["A"] # "none"
  /\ last' = [op |-> "construct", inst |-> i, arg |-> options]
  /\ LET c == getContainer(options) IN
     IF c.err # ""
     THEN /\ thrown' = c.err
          /\ status' = [status EXCEPT ![i] = "failed"]
          /\ UNCHANGED <<container, nativeElement, iframes, listeners>>
     ELSE LET r == render(options, c.node) IN
          /\ container' = [container EXCEPT ![i] = c.node]
          /\ iframes' = Append(iframes, r.iframe)
          /\ IF r.err # ""
             THEN /\ thrown' = r.err
                  /\ status' = [status EXCEPT ![i] = "failed"]
                  /\ UNCHANGED <<nativeElement, listeners>>
             ELSE /\ thrown' = ""
                  /\ status' = [status EXCEPT ![i] = "live"]
                  /\ nativeElement' = [nativeElement EXCEPT ![i] = Len(iframes) + 1]
                  /\ listeners' = listeners \o registerEventListeners(i)
  /\ UNCHANGED <<callbacks, subscribed, attached, posted, sends, refused>>
  /\ Quiet

\* Mutant of getNativeElement: the element an instance reports is the one
\* created last, whoever created it.
getNativeElementLast(i) == Len(iframes)

\* getNativeElement(): this.nativeElement, as an index into iframes.
getNativeElement(i) == nativeElement[i]

\* The host page attaches div1 to the document or detaches it.
ToggleAttached ==
  /\ attached' = ~attached
  /\ last' = [op |-> IF attached THEN "detach" ELSE "attach", inst |-> "", arg |-> NoArg]
  /\ thrown' = ""
  /\ UNCHANGED <<status, container, nativeElement, callbacks, subscribed, iframes,
                 listeners, posted, sends, refused>>
  /\ Quiet

\* ------------------------------------------------------ outbound commands
Languages == {"en", "nl"}
Paths == {"products", "checkout"}

\* The envelope each command method hands to sendMessage.
home == Obj([name |-> Str("elfsquad.visualization.home")])
toggleFootprint == Obj([name |-> Str("elfsquad.visualization.toggleFootprint")])
changeLanguage(languageIso) ==
  Obj([name |-> Str("elfsquad.localization.changeLanguage"),
       args |-> Obj([languageIso |-> Str(languageIso)])])
screenshot == Obj([name |-> Str("elfsquad.visualization.screenshot")])
\* Mutant of disableConfigurationUpdates: the name of the other command.
disableConfigurationUpdatesAsEnable ==
  Obj([name |-> Str("elfsquad.enableConfigurationUpdates")])

enableConfigurationUpdates == Obj([name |-> Str("elfsquad.enableConfigurationUpdates")])
disableConfigurationUpdates == Obj([name |-> Str("elfsquad.disableConfigurationUpdates")])
navigateTo(url) ==
  Obj([name |-> Str("elfsquad.navigation.navigateTo"),
       args |-> Obj([url |-> Str(url)])])

\* The calls a host page makes: method and argument ("" for none).
CommandCalls ==
  {[method |-> m, arg |-> ""] :
     m \in {"home", "toggleFootprint", "screenshot", "enableConfigurationUpdates",
            "disableConfigurationUpdates"}}
    \cup {[method |-> "changeLanguage", arg |-> l] : l \in Languages}
    \cup {[method |-> "navigateTo", arg |-> p] : p \in Paths}

Envelope(call) ==
  CASE call.method = "home" -> home
    [] call.method = "toggleFootprint" -> toggleFootprint
    [] call.method = "changeLanguage" -> changeLanguage(call.arg)
    [] call.method = "screenshot" -> screenshot
    [] call.method = "enableConfigurationUpdates" -> enableConfigurationUpdates
    [] call.method = "disableConfigurationUpdates" -> disableConfigurationUpdates
    [] call.method = "navigateTo" -> navigateTo(call.arg)

\* this.nativeElement.contentWindow is null while the iframe is in no document.
HasContentWindow(i) == Connected(iframes[nativeElement[i]].parent)

\* Mutant of sendMessage: the message is posted twice.
sendMessageTwice(i, data) ==
  IF ~HasContentWindow(i)
  THEN /\ thrown' = "Native element does not have a content window"
       /\ wire' = NoWire
       /\ UNCHANGED posted
  ELSE /\ thrown' = ""
       /\ wire' = [inst |-> i, data |-> data, targetOrigin |-> "*"]
       /\ posted' = [posted EXCEPT ![i] = @ + 2]

\* Mutant of sendMessage: the content window is not looked at.
sendMessageUnchecked(i, data) ==
  /\ thrown' = ""
  /\ wire' = [inst |-> i, data |-> data, targetOrigin |-> "*"]
  /\ posted' = [posted EXCEPT ![i] = @ + 1]

\* sendMessage(data): throws without a content window, else postMessage(data, '*').
sendMessage(i, data) ==
  IF ~HasContentWindow(i)
  THEN /\ thrown' = "Native element does not have a content window"
       /\ wire' = NoWire
       /\ UNCHANGED posted
  ELSE /\ thrown' = ""
       /\ wire' = [inst |-> i, data |-> data, targetOrigin |-> "*"]
       /\ posted' = [posted EXCEPT ![i] = @ + 1]

RECURSIVE SumOver(_, _)
SumOver(f, S) ==
  IF S = {} THEN 0
  ELSE LET x == CHOOSE y \in S : TRUE IN f[x] + SumOver(f, S \ {x})

\* A call of one of the seven command methods.
Command(i, call) ==
  /\ status[i] = "live"
  /\ SumOver(posted, Instances) < MaxPosts
  /\ last' = [op |-> "command", inst |-> i, arg |-> call]
  /\ sendMessage(i, Envelope(call))
  /\ sends' = [sends EXCEPT ![i] = IF thrown' = "" THEN @ + 1 ELSE @]
  /\ refused' = [refused EXCEPT ![i] = @ \/ thrown' # ""]
  /\ UNCHANGED <<status, container, nativeElement, callbacks, subscribed, attached,
                 iframes, listeners>>
  /\ NoDelivery

\* ---------------------------------------------------------- subscriptions
\* The registry and the records kept of it, as one value the dispatch threads
\* through the callbacks it runs.
Machine ==
  [callbacks |-> callbacks, subscribed |-> subscribed, calls |-> calls,
   joined |-> joined, streak |-> streak, invoked |-> <<>>]

\* The same as a delivery of data starts with it: the next of this streak, or
\* the first of a new one.
Starting(data) ==
  IF data = event THEN [Machine EXCEPT !.streak = streak + 1]
  ELSE [Machine EXCEPT !.streak = 1, !.calls = Zeros(callbacks),
                       !.joined = Zeros(subscribed)]

Put(reg, key, x) ==
  [k \in DOMAIN reg \cup {key} |->
     IF k = key THEN (IF key \in DOMAIN reg THEN Append(reg[key], x) ELSE <<x>>)
     ELSE reg[k]]

\* A call of a subscription method, as the caller sees it.
Subscribed(m, i, key, callback) ==
  [m EXCEPT !.subscribed[i][key] = Append(@, callback),
            !.joined[i][key] = Append(@, m.streak)]

\* Mutant of addCallback: unshift instead of push.
PutFront(reg, key, x) ==
  [k \in DOMAIN reg \cup {key} |->
     IF k = key THEN (IF key \in DOMAIN reg THEN <<x>> \o reg[key] ELSE <<x>>)
     ELSE reg[k]]

addCallbackFront(m, i, key, callback) ==
  [m EXCEPT !.callbacks[i] = PutFront(@, key, callback),
            !.calls[i] = Put(@, key, 0)]

\* Mutant of addCallback: the messages delivered before the subscription are
\* replayed to the new callback.
addCallbackReplay(m, i, key, callback) ==
  [m EXCEPT !.callbacks[i] = Put(@, key, callback),
            !.calls[i] = Put(@, key, m.streak),
            !.invoked = IF m.streak > 0
                        THEN Append(@, [inst |-> i, key |-> key, cb |-> callback,
                                        data |-> Undefined])
                        ELSE @]

\* Mutant of addCallback: a callback the entry already holds is not added again.
addCallbackUnique(m, i, key, callback) ==
  IF key \in DOMAIN m.callbacks[i]
     /\ \E k \in 1..Len(m.callbacks[i][key]) : m.callbacks[i][key][k] = callback
  THEN m
  ELSE [m EXCEPT !.callbacks[i] = Put(@, key, callback),
                 !.calls[i] = Put(@, key, 0)]

\* addCallback(key, callback): the entry is created on the first subscription.
addCallback(m, i, key, callback) ==
  [m EXCEPT !.callbacks[i] = Put(@, key, callback),
            !.calls[i] = Put(@, key, 0)]

RECURSIVE Count(_, _)
Count(reg, keys) ==
  IF keys = {} THEN 0
  ELSE LET k == CHOOSE x \in keys : TRUE IN Len(reg[k]) + Count(reg, keys \ {k})

\* The number of registrations of all instances.
Subscriptions(cbs) ==
  LET n == [i \in Instances |-> Count(cbs[i], DOMAIN cbs[i])] IN SumOver(n, Instances)

\* The event key each subscription method passes to addCallback.
SubscribeKey(method) ==
  CASE method = "onScreenshot" -> ScreenshotTaken
    [] method = "onRequestQuote" -> RequestQuote
    [] method = "onConfigurationUpdate" -> ConfigurationUpdated

SubscribeMethods == {"onScreenshot", "onRequestQuote", "onConfigurationUpdate"}

\* onScreenshot(callback), onRequestQuote(callback), onConfigurationUpdate(callback)
Subscribe(i, method, callback) ==
  /\ status[i] = "live"
  /\ Subscriptions(callbacks) < MaxSubs
  /\ callbacks' = addCallback(Machine, i, SubscribeKey(method), callback).callbacks
  /\ subscribed' = Subscribed(Machine, i, SubscribeKey(method), callback).subscribed
  /\ last' = [op |-> "subscribe", inst |-> i,
              arg |-> [method |-> method, callback |-> callback]]
  /\ thrown' = ""
  /\ Quiet
  /\ UNCHANGED <<status, container, nativeElement, attached, iframes, listeners,
                 posted, sends, refused>>

\* ------------------------------------------------------- inbound dispatch
\* One call callback(data) of the forEach: what it leaves and whether it threw.
Invoke(m, i, key, k, data) ==
  LET cb == m.callbacks[i][key][k]
      m1 == [m EXCEPT !.invoked = Append(@, [inst |-> i, key |-> key, cb |-> cb,
                                               data |-> data]),
                      !.calls[i][key][k] = @ + 1]
  IN CASE cb = "bad" -> [m |-> m1, threw |-> TRUE]
       [] cb = "sub" ->
            [m |-> addCallback(Subscribed(m1, i, key, "f"), i, key, "f"), threw |-> FALSE]
       [] OTHER -> [m |-> m1, threw |-> FALSE]

\* Mutant of ForEach: the length of the array is read again at every element,
\* so elements pushed by a callback are visited by the same loop.
RECURSIVE ForEachLive(_, _, _, _, _, _)
ForEachLive(m, i, key, data, k, n) ==
  IF k > Len(m.callbacks[i][key]) THEN [m |-> m, threw |-> FALSE]
  ELSE LET r == Invoke(m, i, key, k, data) IN
       IF r.threw THEN r ELSE ForEachLive(r.m, i, key, data, k + 1, n)

\* Mutant of ForEach: the exception of a callback is caught and the loop goes on.
RECURSIVE ForEachCatching(_, _, _, _, _, _)
ForEachCatching(m, i, key, data, k, n) ==
  IF k > n THEN [m |-> m, threw |-> FALSE]
  ELSE ForEachCatching(Invoke(m, i, key, k, data).m, i, key, data, k + 1, n)

\* Array.prototype.forEach over the elements k..n: it visits the elements the
\* array held when it started, and an exception ends it.
RECURSIVE ForEach(_, _, _, _, _, _)
ForEach(m, i, key, data, k, n) ==
  IF k > n THEN [m |-> m, threw |-> FALSE]
  ELSE LET r == Invoke(m, i, key, k, data) IN
       IF r.threw THEN r ELSE ForEach(r.m, i, key, data, k + 1, n)

\* Mutant of executeCallbacks: a message equal to the one before it is dropped.
executeCallbacksOnce(m, i, key, data) ==
  IF key \notin DOMAIN m.callbacks[i] \/ m.streak > 1 THEN [m |-> m, threw |-> FALSE]
  ELSE ForEach(m, i, key, data, 1, Len(m.callbacks[i][key]))

\* Mutant of executeCallbacks: an event without an entry is given an empty one.
executeCallbacksCreate(m, i, key, data) ==
  IF key \notin DOMAIN m.callbacks[i]
  THEN [m |-> [m EXCEPT !.callbacks[i] =
                          [k \in DOMAIN @ \cup {key} |-> IF k \in DOMAIN @ THEN @[k] ELSE <<>>],
                        !.calls[i] =
                          [k \in DOMAIN @ \cup {key} |-> IF k \in DOMAIN @ THEN @[k] ELSE <<>>]],
        threw |-> FALSE]
  ELSE ForEach(m, i, key, data, 1, Len(m.callbacks[i][key]))

\* executeCallbacks(key, data)
executeCallbacks(m, i, key, data) ==
  IF key \notin DOMAIN m.callbacks[i] THEN [m |-> m, threw |-> FALSE]
  ELSE ForEach(m, i, key, data, 1, Len(m.callbacks[i][key]))

\* event.data?.name
DataName(data) == IF GetThrows(data) THEN Undefined ELSE Get(data, "name")

\* Mutant of NamedListener: the name of the message is not compared with the key.
NamedListenerAny(m, l, data) ==
  IF DataName(data) # Undefined
  THEN executeCallbacks(m, l.inst, l.dispatch, Get(data, "args"))
  ELSE [m |-> m, threw |-> FALSE]

\* The listener registerEventListener(key, callback) adds.
NamedListener(m, l, data) ==
  IF DataName(data) = Str(l.key)
  THEN executeCallbacks(m, l.inst, l.dispatch, Get(data, "args"))
  ELSE [m |-> m, threw |-> FALSE]

\* Mutant of LegacyListener: the argument is passed on as it is.
LegacyListenerRaw(m, l, data) ==
  LET parsed == JSONparse(StringOf(data)) IN
  IF ~parsed.ok \/ GetThrows(parsed.value) THEN [m |-> m, threw |-> FALSE]
  ELSE IF Get(parsed.value, "action") # Str("createQuotation")
       THEN [m |-> m, threw |-> FALSE]
       ELSE [m |-> executeCallbacks(m, l.inst, l.dispatch,
                                    Get(parsed.value, "argument")).m,
             threw |-> FALSE]

\* Mutant of LegacyListener: the action is not compared with "createQuotation".
LegacyListenerNoFilter(m, l, data) ==
  LET parsed == JSONparse(StringOf(data)) IN
  IF ~parsed.ok \/ GetThrows(parsed.value) THEN [m |-> m, threw |-> FALSE]
  ELSE [m |-> executeCallbacks(m, l.inst, l.dispatch,
                               Obj([configurationId |-> Get(parsed.value, "argument")])).m,
        threw |-> FALSE]

\* The listener of the legacy action message: everything thrown inside its try
\* block is caught.
LegacyListener(m, l, data) ==
  LET parsed == JSONparse(StringOf(data)) IN
  IF ~parsed.ok THEN [m |-> m, threw |-> FALSE]
  ELSE LET json == parsed.value IN
       IF GetThrows(json) THEN [m |-> m, threw |-> FALSE]
       ELSE IF Get(json, "action") # Str("createQuotation")
            THEN [m |-> m, threw |-> FALSE]
            ELSE LET configurationId == Get(json, "argument")
                     r == executeCallbacks(m, l.inst, l.dispatch,
                                           Obj([configurationId |-> configurationId]))
                 IN [m |-> r.m, threw |-> FALSE]

RunListener(m, l, data) ==
  IF l.kind = "named" THEN NamedListener(m, l, data) ELSE LegacyListener(m, l, data)

\* The window runs its message listeners in registration order; an error that
\* escapes one is reported and the next one still runs.
RECURSIVE DispatchEvent(_, _, _, _, _)
DispatchEvent(m, ls, data, k, escaped) ==
  IF k > Len(ls) THEN [m |-> m, uncaught |-> escaped]
  ELSE LET r == RunListener(m, ls[k], data) IN
       DispatchEvent(r.m, ls, data, k + 1,
                     IF r.threw THEN Append(escaped, ls[k]) ELSE escaped)

\* A message event with event.data = data arrives at the host window.
Deliver(data) ==
  /\ data = event => streak < MaxDeliver
  /\ LET r == DispatchEvent(Starting(data), listeners, data, 1, <<>>) IN
     /\ callbacks' = r.m.callbacks
     /\ subscribed' = r.m.subscribed
     /\ calls' = r.m.calls
     /\ joined' = r.m.joined
     /\ streak' = r.m.streak
     /\ invoked' = r.m.invoked
     /\ uncaught' = r.uncaught
  /\ event' = data
  /\ last' = [op |-> "deliver", inst |-> "", arg |-> NoArg]
  /\ thrown' = ""
  /\ wire' = NoWire
  /\ UNCHANGED <<status, container, nativeElement, attached, iframes, listeners,
                 posted, sends, refused>>

\* ------------------------------------------------------------ specification
\* A host page with the one instance A.
DoConstruct ==
  \E c \in Containers, u \in Urls : Construct("A", [container |-> c, url |-> u])
DoCommand == \E call \in CommandCalls : Command("A", call)
DoSubscribe ==
  \E method \in SubscribeMethods, cb \in Callbacks : Subscribe("A", method, cb)
DoDeliver ==
  \E data \in Messages : Deliver(data) /\ Subscriptions(callbacks') <= MaxSubs

Next ==
  \/ DoConstruct
  \/ ToggleAttached
  \/ DoCommand
  \/ DoSubscribe
  \/ DoDeliver

Spec == Init /\ [][Next]_vars

\* The inbound side alone: Deliver reads nothing a command writes.
NextInbound ==
  \/ DoConstruct
  \/ DoSubscribe
  \/ DoDeliver

SpecInbound == Init /\ [][NextInbound]_vars

\* The outbound side alone: Command reads nothing a delivery writes.
NextOutbound ==
  \/ DoConstruct
  \/ ToggleAttached
  \/ DoSubscribe
  \/ DoCommand

SpecOutbound == Init /\ [][NextOutbound]_vars

\* Construction alone: a host page that constructs up to two instances, each
\* with any container and either of two viewer URLs.
ConstructUrls == Urls \cup {"https://demo.elfsquad.io/showroom"}

DoConstructAny ==
  \E i \in Instances, c \in Containers, u \in ConstructUrls :
    Construct(i, [container |-> c, url |-> u])

NextConstruct ==
  \/ DoConstructAny
  \/ ToggleAttached

SpecConstruct == Init /\ [][NextConstruct]_vars

\* Both sides together: the host page calls commands and subscription methods
\* while a few of the messages arrive.
MixedMessages ==
  { Obj([name |-> Str(ScreenshotTaken), args |-> Image1]),
    Obj([name |-> Str(ConfigurationUpdated), args |-> Config1]),
    Str(TxtQuoteAbc),
    Str(TxtNotJson) }

MixedCalls ==
  {[method |-> m, arg |-> ""] :
     m \in {"screenshot", "enableConfigurationUpdates", "disableConfigurationUpdates"}}

DoCommandMixed == \E call \in MixedCalls : Command("A", call)

DoDeliverMixed ==
  \E data \in MixedMessages : Deliver(data) /\ Subscriptions(callbacks') <= MaxSubs

NextMixed ==
  \/ DoConstruct
  \/ ToggleAttached
  \/ DoCommandMixed
  \/ DoSubscribe
  \/ DoDeliverMixed

SpecMixed == Init /\ [][NextMixed]_vars

\* Dispatches that subscriptions made by callbacks follow: the registry may
\* grow by them beyond what the host page subscribed, one message of a named
\* event and one of the legacy action arrive.
ReentrantMessages ==
  { Obj([name |-> Str(ScreenshotTaken), args |-> Image1]), Str(TxtQuoteAbc) }

DoDeliverReentrant ==
  \E data \in ReentrantMessages :
    Deliver(data) /\ Subscriptions(callbacks') <= MaxSubs + MaxDeliver

NextReentrant ==
  \/ DoConstruct
  \/ DoSubscribe
  \/ DoDeliverReentrant

SpecReentrant == Init /\ [][NextReentrant]_vars

\* ---------------------------------------------------------------- senders
\* A message event as the window hands it to a listener: its data, the origin
\* of the sender, and the sender's window (the content window of the iframe
\* of an instance, or the window of some other frame).
Origins == {"https://automotive.elfsquad.io", "https://other.example"}
Sources == {"A", "other"}
Senders == {[origin |-> o, source |-> s] : o \in Origins, s \in Sources}
MessageEvent(data, sender) ==
  [data |-> data, origin |-> sender.origin, source |-> sender.source]

\* Mutant of Listener: a message is handled only when its source is the
\* content window of the instance's own iframe.
ListenerOwnSource(m, l, ev) ==
  IF ev.source = l.inst THEN RunListener(m, l, ev.data) ELSE [m |-> m, threw |-> FALSE]

\* A listener as the window calls it with the event: it reads event.data only.
Listener(m, l, ev) == RunListener(m, l, ev.data)

\* The window runs its message listeners on the event, in registration order.
RECURSIVE DispatchMessage(_, _, _, _, _)
DispatchMessage(m, ls, ev, k, escaped) ==
  IF k > Len(ls) THEN [m |-> m, uncaught |-> escaped]
  ELSE LET r == Listener(m, ls[k], ev) IN
       DispatchMessage(r.m, ls, ev, k + 1,
                       IF r.threw THEN Append(escaped, ls[k]) ELSE escaped)

\* A message event with event.data = data sent by sender arrives at the host
\* window.
DeliverFrom(data, sender) ==
  /\ data = event => streak < MaxDeliver
  /\ LET r == DispatchMessage(Starting(data), listeners, MessageEvent(data, sender),
                              1, <<>>) IN
     /\ callbacks' = r.m.callbacks
     /\ subscribed' = r.m.subscribed
     /\ calls' = r.m.calls
     /\ joined' = r.m.joined
     /\ streak' = r.m.streak
     /\ invoked' = r.m.invoked
     /\ uncaught' = r.uncaught
  /\ event' = data
  /\ last' = [op |-> "deliver", inst |-> "", arg |-> sender]
  /\ thrown' = ""
  /\ wire' = NoWire
  /\ UNCHANGED <<status, container, nativeElement, attached, iframes, listeners,
                 posted, sends, refused>>

\* A host page with two instances in the element div1, and messages of a named
\* event and of the legacy action from every sender.
SenderMessages ==
  { Obj([name |-> Str(ScreenshotTaken), args |-> Image1]), Str(TxtQuoteAbc) }

DoConstructBoth ==
  \E i \in Instances, u \in Urls :
    Construct(i, [container |-> [kind |-> "element", v |-> "div1"], url |-> u])
DoSubscribeBoth ==
  \E i \in Instances, method \in {"onScreenshot", "onRequestQuote"}, cb \in {"f", "bad"} :
    Subscribe(i, method, cb)
DoDeliverFrom ==
  \E data \in SenderMessages, sender \in Senders :
    DeliverFrom(data, sender) /\ Subscriptions(callbacks') <= MaxSubs

NextSenders ==
  \/ DoConstructBoth
  \/ DoSubscribeBoth
  \/ DoDeliverFrom

SpecSenders == Init /\ [][NextSenders]_vars

\* ---------------------------------------------------------------- history
\* Subscriptions between the messages of one event.  Here the records of the
\* registry are kept over the whole life of the instance: streak counts the
\* screenshot messages delivered since construction, joined[i][key][k] is that
\* count when registration k was made, calls[i][key][k] counts all its
\* invocations.
HistoryMessages ==
  { Obj([name |-> Str(ScreenshotTaken), args |-> Image1]),
    Obj([name |-> Str(ScreenshotTaken), args |-> Image2]) }

\* onScreenshot(callback), onConfigurationUpdate(callback), after any messages.
SubscribeLater(i, method, callback) ==
  /\ status[i] = "live"
  /\ Subscriptions(callbacks) < MaxSubs
  /\ LET m == addCallback(Subscribed(Machine, i, SubscribeKey(method), callback),
                          i, SubscribeKey(method), callback) IN
     /\ callbacks' = m.callbacks
     /\ subscribed' = m.subscribed
     /\ calls' = m.calls
     /\ joined' = m.joined
     /\ invoked' = m.invoked
  /\ last' = [op |-> "subscribe", inst |-> i,
              arg |-> [method |-> method, callback |-> callback]]
  /\ thrown' = ""
  /\ wire' = NoWire
  /\ uncaught' = <<>>
  /\ UNCHANGED <<status, container, nativeElement, attached, iframes, listeners,
                 posted, sends, refused, streak, event>>

\* One more screenshot message arrives at the host window.
DeliverCounted(data) ==
  /\ streak < MaxDeliver
  /\ LET r == DispatchEvent([Machine EXCEPT !.streak = streak + 1], listeners, data,
                            1, <<>>) IN
     /\ callbacks' = r.m.callbacks
     /\ subscribed' = r.m.subscribed
     /\ calls' = r.m.calls
     /\ joined' = r.m.joined
     /\ streak' = r.m.streak
     /\ invoked' = r.m.invoked
     /\ uncaught' = r.uncaught
  /\ event' = data
  /\ last' = [op |-> "deliver", inst |-> "", arg |-> NoArg]
  /\ thrown' = ""
  /\ wire' = NoWire
  /\ UNCHANGED <<status, container, nativeElement, attached, iframes, listeners,
                 posted, sends, refused>>

DoSubscribeLater ==
  \E method \in {"onScreenshot", "onConfigurationUpdate"}, cb \in Callbacks :
    SubscribeLater("A", method, cb)
DoDeliverCounted ==
  \E data \in HistoryMessages :
    DeliverCounted(data) /\ Subscriptions(callbacks') <= MaxSubs + MaxDeliver

NextHistory ==
  \/ DoConstruct
  \/ DoSubscribeLater
  \/ DoDeliverCounted

SpecHistory == Init /\ [][NextHistory]_vars

\* ------------------------------------------------------------------ claims
\* The invocations of instance i among seq.
Of(i, seq) == LET Mine(e) == e.inst = i IN SelectSeq(seq, Mine)

\* The invocations that call every callback of list once, in order, with data.
EachOnce(i, key, list, data) ==
  [k \in 1..Len(list) |-> [inst |-> i, key |-> key, cb |-> list[k], data |-> data]]

\* The position of the first callback of list that throws, Len(list) if none does.
FirstThrow(list) ==
  IF \E k \in 1..Len(list) : list[k] = "bad"
  THEN CHOOSE k \in 1..Len(list) : list[k] = "bad" /\ \A j \in 1..(k - 1) : list[j] # "bad"
  ELSE Len(list)

UpToFirstThrow(i, key, list, data) ==
  SubSeq(EachOnce(i, key, list, data), 1, FirstThrow(list))

\* The raw payloads of the legacy action createQuotation, and the argument of each.
QuoteMessages == {Str(TxtQuoteAbc), Str(TxtQuoteNum), Str(TxtQuoteNoArg)}

QuoteArgument(data) ==
  CASE data = Str(TxtQuoteAbc) -> Str("abc123")
    [] data = Str(TxtQuoteNum) -> Num(42)
    [] OTHER -> Undefined

\* The raw payloads that are no JSON, or JSON of another shape.
OtherRawMessages == {Str(TxtOther), Str(TxtNull), Str(TxtNotJson), Num(5)}

\* The event a message is dispatched for ("" for none).
MatchedKey(data) ==
  CASE data \in StructuredMessages -> data.props.name.s
    [] data \in QuoteMessages -> RequestQuote
    [] OTHER -> ""

CallsOf(i, key, k) ==
  IF key \in DOMAIN calls[i] /\ k \in DOMAIN calls[i][key] THEN calls[i][key][k] ELSE 0

\* C1 as stated: one matching structured message invokes every callback
\* subscribed to its event exactly once, in subscription order, each with the
\* args of the message.
C1_EveryCallbackInvoked ==
  [][\A i \in Instances :
       (last'.op = "deliver" /\ event' \in StructuredMessages)
         => Of(i, invoked') =
              EachOnce(i, event'.props.name.s, subscribed[i][event'.props.name.s],
                       event'.props.args)]_vars

\* C1 amended: one matching structured message invokes the callbacks subscribed
\* to its event in subscription order, each exactly once with the args of the
\* message, up to and including the first one that throws; all of them when
\* none throws.
C1_InvokedUpToFirstThrow ==
  [][\A i \in Instances :
       (last'.op = "deliver" /\ event' \in StructuredMessages)
         => Of(i, invoked') =
              UpToFirstThrow(i, event'.props.name.s,
                             subscribed[i][event'.props.name.s], event'.props.args)]_vars

\* Two different callbacks of one structured event were invoked by one message.
C1_Witness ==
  /\ last.op = "deliver"
  /\ event \in StructuredMessages
  /\ Len(invoked) >= 2
  /\ invoked[1].cb # invoked[2].cb
  /\ invoked[1].data = event.props.args

\* C2 as stated: a raw message that parses to {action: "createQuotation",
\* argument: X} invokes every callback registered through onRequestQuote, in
\* subscription order, with {configurationId: X}.
C2_EveryQuoteCallbackInvoked ==
  [][\A i \in Instances :
       (last'.op = "deliver" /\ event' \in QuoteMessages)
         => Of(i, invoked') =
              EachOnce(i, RequestQuote, subscribed[i][RequestQuote],
                       Obj([configurationId |-> QuoteArgument(event')]))]_vars

\* C2 amended: such a message invokes the callbacks registered through
\* onRequestQuote in subscription order with {configurationId: X}, up to and
\* including the first one that throws; all of them when none throws.
C2_QuoteInvokedUpToFirstThrow ==
  [][\A i \in Instances :
       (last'.op = "deliver" /\ event' \in QuoteMessages)
         => Of(i, invoked') =
              UpToFirstThrow(i, RequestQuote, subscribed[i][RequestQuote],
                             Obj([configurationId |-> QuoteArgument(event')]))]_vars

\* Two quote callbacks were invoked with the configurationId of the message.
C2_Witness ==
  /\ last.op = "deliver"
  /\ event = Str(TxtQuoteAbc)
  /\ Len(invoked) >= 2
  /\ \A k \in 1..Len(invoked) :
       /\ invoked[k].key = RequestQuote
       /\ invoked[k].data = Obj([configurationId |-> Str("abc123")])

\* C3: a raw payload that is no JSON, or JSON without the action
\* "createQuotation", invokes no callback and lets no error escape a listener.
C3_OtherRawIgnored ==
  (last.op = "deliver" /\ event \in OtherRawMessages)
    => (invoked = <<>> /\ uncaught = <<>>)

\* Such a payload was delivered while quote callbacks were subscribed.
C3_Witness ==
  /\ last.op = "deliver"
  /\ event \in OtherRawMessages
  /\ \E i \in Instances : Len(subscribed[i][RequestQuote]) >= 1

\* C4: a structured message with an unknown name invokes no callback, lets no
\* error escape a listener and leaves the registry as it was.
C4_UnknownNameIgnored ==
  [][(last'.op = "deliver" /\ event' \in UnknownMessages)
       => (invoked' = <<>> /\ uncaught' = <<>> /\ callbacks' = callbacks)]_vars

\* A message with an unknown name was delivered to a registry with callbacks.
C4_Witness ==
  /\ last.op = "deliver"
  /\ event \in UnknownMessages
  /\ \E i \in Instances : Len(subscribed[i][RequestQuote]) >= 1
  /\ \E i \in Instances : Len(subscribed[i][ScreenshotTaken]) >= 1

\* C5 as stated: after n deliveries in a row of the same matching message,
\* every callback subscribed to its event before the first of them has been
\* invoked n times.
C5_InvokedEveryDelivery ==
  last.op = "deliver"
    => \A i \in Instances : \A key \in ViewerEvent :
         \A k \in 1..Len(subscribed[i][key]) :
           (MatchedKey(event) = key /\ joined[i][key][k] = 0)
             => CallsOf(i, key, k) = streak

\* C5 amended: after n deliveries in a row of the same matching message, a
\* callback subscribed to its event has been invoked once for each delivery
\* made since it was subscribed (n times when it was subscribed before the
\* first), provided no callback subscribed before it to that event throws.
C5_InvokedEveryDeliveryUnlessThrown ==
  last.op = "deliver"
    => \A i \in Instances : \A key \in ViewerEvent :
         \A k \in 1..Len(subscribed[i][key]) :
           (MatchedKey(event) = key /\ k <= FirstThrow(subscribed[i][key]))
             => CallsOf(i, key, k) = streak - joined[i][key][k]

\* The same message was delivered twice in a row to two callbacks.
C5_Witness ==
  /\ last.op = "deliver"
  /\ streak = 2
  /\ \E i \in Instances : \E key \in ViewerEvent :
       /\ MatchedKey(event) = key
       /\ Len(subscribed[i][key]) >= 2
       /\ CallsOf(i, key, 1) = 2
       /\ CallsOf(i, key, 2) = 2

\* C6 as stated: the exception of a callback escapes the listener that
\* dispatched the event, for every event.
C6_ExceptionEscapes ==
  last.op = "deliver"
    => \A k \in 1..Len(invoked) :
         invoked[k].cb = "bad"
           => \E j \in 1..Len(uncaught) :
                uncaught[j].inst = invoked[k].inst /\ uncaught[j].dispatch = invoked[k].key

\* The envelope names of the command table of the specification.
TableName(method) ==
  CASE method = "home" -> "visualization.home"
    [] method = "toggleFootprint" -> "visualization.toggleFootprint"
    [] method = "screenshot" -> "visualization.screenshot"
    [] method = "changeLanguage" -> "localization.changeLanguage"
    [] method = "enableConfigurationUpdates" -> "enableConfigurationUpdates"
    [] method = "disableConfigurationUpdates" -> "disableConfigurationUpdates"
    [] method = "navigateTo" -> "navigation.navigateTo"

\* C7 as stated: the envelope a command posts carries the name the command
\* table gives for it.
C7_TableNames ==
  (last.op = "command" /\ thrown = "")
    => Get(wire.data, "name") = Str(TableName(last.arg.method))

\* C7 amended: the envelope a command posts carries the name of the command
\* table with the prefix "elfsquad.".
C7_PrefixedTableNames ==
  (last.op = "command" /\ thrown = "")
    => Get(wire.data, "name") = Str("elfsquad." \o TableName(last.arg.method))

\* disableConfigurationUpdates posted its envelope.
C7_Witness ==
  /\ last.op = "command"
  /\ thrown = ""
  /\ last.arg.method = "disableConfigurationUpdates"
  /\ wire.data # Undefined

\* Whether the container of instance i is in the document.
ContainerInDocument(i) ==
  container[i] = "svg1" \/ (container[i] = "div1" /\ attached)

\* The args of the envelope of a call: {languageIso}, {url}, or no args field.
ArgsShape(call, data) ==
  CASE call.method = "changeLanguage" ->
         Get(data, "args") = Obj([languageIso |-> Str(call.arg)])
    [] call.method = "navigateTo" -> Get(data, "args") = Obj([url |-> Str(call.arg)])
    [] OTHER -> data.t = "object" /\ "args" \notin DOMAIN data.props

\* C8: with a content window, a command call posts exactly one message into it,
\* with target origin "*" and the args of the command; the messages posted are
\* always as many as the command calls that returned normally.
C8_OnePostPerCall ==
  /\ [](\A i \in Instances : posted[i] = sends[i])
  /\ [][\A i \in Instances :
          (last'.op = "command" /\ last'.inst = i /\ ContainerInDocument(i))
            => /\ posted'[i] = posted[i] + 1
               /\ wire'.inst = i
               /\ wire'.targetOrigin = "*"
               /\ ArgsShape(last'.arg, wire'.data)]_vars

\* A second message was posted, by changeLanguage.
C8_Witness ==
  /\ last.op = "command"
  /\ last.arg.method = "changeLanguage"
  /\ posted[last.inst] = 2
  /\ sends[last.inst] = 2
  /\ Get(wire.data, "args") = Obj([languageIso |-> Str(last.arg.arg)])

\* C9: without a content window a command call throws 'Native element does
\* not have a content window', posts nothing and leaves the registry as it was;
\* with one it returns normally.
C9_NoContentWindow ==
  [][\A i \in Instances :
       (last'.op = "command" /\ last'.inst = i)
         => IF ContainerInDocument(i)
            THEN thrown' = ""
            ELSE /\ thrown' = "Native element does not have a content window"
                 /\ posted' = posted
                 /\ wire' = NoWire
                 /\ callbacks' = callbacks]_vars

\* A command returned normally on an instance that had refused one before, with
\* callbacks subscribed.
C9_Witness ==
  /\ last.op = "command"
  /\ thrown = ""
  /\ refused[last.inst]
  /\ posted[last.inst] = 1
  /\ callbacks[last.inst] # EmptyRegistry

\* C10: construction with a selector that matches no node throws 'Container
\* not found'.
C10_ContainerNotFound ==
  (/\ last.op = "construct"
   /\ last.arg.container.kind = "selector"
   /\ \/ last.arg.container.v = "#missing"
      \/ last.arg.container.v = "#showroom" /\ ~attached)
    => (thrown = "Container not found" /\ status[last.inst] = "failed")

\* A construction with the selector of the detached div1 failed.
C10_Witness ==
  /\ last.op = "construct"
  /\ last.arg.container = [kind |-> "selector", v |-> "#showroom"]
  /\ ~attached
  /\ thrown = "Container not found"

\* C11: construction with a selector whose node exists but is not an
\* HTMLElement throws 'Container must be an HTMLElement'.
C11_ContainerType ==
  (/\ last.op = "construct"
   /\ last.arg.container.kind = "selector"
   /\ QuerySelector(last.arg.container.v) # "null"
   /\ ~IsHTMLElement(QuerySelector(last.arg.container.v)))
    => (thrown = "Container must be an HTMLElement" /\ status[last.inst] = "failed")

\* A construction with the selector of the svg element failed.
C11_Witness ==
  /\ last.op = "construct"
  /\ last.arg.container = [kind |-> "selector", v |-> "svg"]
  /\ thrown = "Container must be an HTMLElement"
  /\ iframes = <<>>

\* The node options.container stands for: the match of a selector, or the
\* value supplied directly.
ResolvedNode(c) == IF c.kind = "selector" THEN QuerySelector(c.v) ELSE c.v

\* C12 as stated: when the container, given directly or by selector, does not
\* resolve to an HTMLElement, construction fails before any iframe is created
\* or appended and before any message listener is registered.
C12_CheckedBeforeIframe ==
  (/\ last.op = "construct"
   /\ \/ ResolvedNode(last.arg.container) = "null"
      \/ ~IsHTMLElement(ResolvedNode(last.arg.container)))
    => /\ status[last.inst] = "failed"
       /\ thrown # ""
       /\ iframes = <<>>
       /\ \A k \in 1..Len(listeners) : listeners[k].inst # last.inst

\* The iframes among seq that are children of node.
ChildrenOf(node, seq) == LET In(e) == e.parent = node IN SelectSeq(seq, In)

\* The listeners of instance i among seq.
ListenersOf(i, seq) == LET Mine(l) == l.inst = i IN SelectSeq(seq, Mine)

C14_DisabledNotTriggered ==
  [][(/\ last.op = "command"
      /\ last.arg.method = "disableConfigurationUpdates"
      /\ thrown = ""
      /\ last'.op = "deliver")
       => \A k \in 1..Len(invoked') : invoked'[k].key # ConfigurationUpdated]_vars

\* Every list of the registry reg is still in reg2, extended at its end.
AppendOnly(reg, reg2) ==
  \A i \in Instances : \A key \in DOMAIN reg[i] :
    /\ key \in DOMAIN reg2[i]
    /\ Len(reg2[i][key]) >= Len(reg[i][key])
    /\ SubSeq(reg2[i][key], 1, Len(reg[i][key])) = reg[i][key]

\* How many times cb occurs in list.
Occurrences(cb, list) == Cardinality({k \in 1..Len(list) : list[k] = cb})

\* How many of the invocations seq are calls of cb for the event key of instance i.
Invocations(i, key, cb, seq) ==
  Cardinality({k \in 1..Len(seq) :
                 seq[k].inst = i /\ seq[k].key = key /\ seq[k].cb = cb})

\* C15 as stated: every step leaves each list of the registry as it was or
\* extends it at its end, and a matching message invokes a callback as many
\* times as it has been subscribed to the event.
C15_AppendOnlyInvokedKTimes ==
  [][/\ AppendOnly(callbacks, callbacks')
     /\ \A i \in Instances : \A key \in ViewerEvent : \A cb \in Callbacks :
          (last'.op = "deliver" /\ MatchedKey(event') = key)
            => Invocations(i, key, cb, invoked') = Occurrences(cb, subscribed[i][key])]_vars

\* C15 amended: every step leaves each list of the registry as it was or
\* extends it at its end, and a matching message invokes a callback once for
\* each of its subscriptions to the event that is not after the first
\* subscription of a callback that throws.
C15_AppendOnlyInvokedPerSubscription ==
  [][/\ AppendOnly(callbacks, callbacks')
     /\ \A i \in Instances : \A key \in ViewerEvent : \A cb \in Callbacks :
          (last'.op = "deliver" /\ MatchedKey(event') = key)
            => Invocations(i, key, cb, invoked')
                 = Occurrences(cb, SubSeq(subscribed[i][key], 1,
                                          FirstThrow(subscribed[i][key])))]_vars

\* A callback subscribed twice to one event was invoked twice by one message.
C15_Witness ==
  /\ last.op = "deliver"
  /\ \E key \in ViewerEvent :
       /\ MatchedKey(event) = key
       /\ subscribed["A"][key] = <<"f", "f">>
       /\ callbacks["A"][key] = <<"f", "f">>
       /\ Invocations("A", key, "f", invoked) = 2

\* C16: a live instance has one iframe, the one its construction created and
\* appended to its container: no command, subscription or delivery creates an
\* iframe, and getNativeElement() returns that same iframe after every step.
C16_OneIframe ==
  /\ [](\A i \in Instances :
          IF status[i] = "live"
          THEN /\ getNativeElement(i) \in 1..Len(iframes)
               /\ iframes[getNativeElement(i)].parent = container[i]
          ELSE getNativeElement(i) = 0)
  /\ [][/\ \A i \in Instances :
             status[i] = "live"
               => /\ getNativeElement(i)' = getNativeElement(i)
                  /\ iframes'[getNativeElement(i)] = iframes[getNativeElement(i)]
        /\ last'.op \in {"command", "subscribe", "deliver"} => iframes' = iframes]_vars

\* A live instance after a command was posted, a callback was subscribed and a
\* message was delivered to it.
C16_Witness ==
  /\ status["A"] = "live"
  /\ last.op = "deliver"
  /\ invoked # <<>>
  /\ posted["A"] >= 1
  /\ getNativeElement("A") = 1
  /\ iframes[1].parent = container["A"]

\* The events whose subscribers the last delivery invoked.
InvokedKeys == {invoked[k].key : k \in 1..Len(invoked)}

\* C17 as stated: one message invokes subscribers of at most one event, and a
\* message that matches an event invokes subscribers of that event only.
C17_OneEventPerMessage ==
  last.op = "deliver"
    => /\ Cardinality(InvokedKeys) <= 1
       /\ MatchedKey(event) # "" => InvokedKeys \subseteq {MatchedKey(event)}

\* The list of key in the registry reg of instance i, empty without an entry.
ListOf(reg, i, key) == IF key \in DOMAIN reg[i] THEN reg[i][key] ELSE <<>>

\* What the list of key has in reg2 after what it has in reg.
Added(reg, reg2, i, key) ==
  SubSeq(ListOf(reg2, i, key), Len(ListOf(reg, i, key)) + 1, Len(ListOf(reg2, i, key)))

\* What a command, a subscription and a construction leave alone.
NoInterference ==
  /\ last'.op = "command"
       => callbacks' = callbacks /\ subscribed' = subscribed /\ invoked' = <<>>
  /\ last'.op = "subscribe"
       => posted' = posted /\ wire' = NoWire /\ invoked' = <<>>
  /\ last'.op = "construct"
       => posted' = posted /\ wire' = NoWire /\ invoked' = <<>> /\ callbacks' = callbacks

CallbacksOf(seq) == [k \in 1..Len(seq) |-> seq[k].cb]

\* n times the callback f.
Repeat(n) == [k \in 1..n |-> "f"]

\* Whether list holds a callback that throws.
Throws(list) == \E k \in 1..Len(list) : list[k] = "bad"

C20_InvocationsEqualSubscribers ==
  [][\A i \in Instances : \A key \in ViewerEvent :
       LET list == ListOf(callbacks, i, key)
           mine == CallbacksOf(Of(i, invoked'))
       IN (last'.op = "deliver" /\ MatchedKey(event') = key)
            => /\ mine = list
               /\ Len(mine) = Len(list)
               /\ ListOf(callbacks', i, key) = list \o Repeat(Occurrences("sub", mine))]_vars

\* C20 amended: the same, but the dispatch ends at the first subscriber that
\* throws: the number of invocations is at most the number of subscribers at
\* the start, and equal to it when no subscriber throws.
C20_InvocationsAtMostSubscribers ==
  [][\A i \in Instances : \A key \in ViewerEvent :
       LET list == ListOf(callbacks, i, key)
           mine == CallbacksOf(Of(i, invoked'))
       IN (last'.op = "deliver" /\ MatchedKey(event') = key)
            => /\ mine = SubSeq(list, 1, FirstThrow(list))
               /\ Len(mine) <= Len(list)
               /\ ~Throws(list) => Len(mine) = Len(list)
               /\ ListOf(callbacks', i, key) = list \o Repeat(Occurrences("sub", mine))]_vars

\* The same message was delivered twice to a callback that subscribes: the
\* callback the first dispatch subscribed was invoked by the second, after
\* the subscribing one, and the callback the second subscribed by neither.
C20_Witness ==
  /\ last.op = "deliver"
  /\ streak = 2
  /\ \E key \in ViewerEvent :
       /\ MatchedKey(event) = key
       /\ ListOf(callbacks, "A", key) = <<"sub", "f", "f">>
       /\ CallbacksOf(invoked) = <<"sub", "f">>
       /\ CallsOf("A", key, 1) = 2
       /\ CallsOf("A", key, 2) = 1
       /\ CallsOf("A", key, 3) = 0

\* The invocations one delivery of data from sender makes in the present state.
InvocationsFrom(data, sender) ==
  DispatchMessage(Starting(data), listeners, MessageEvent(data, sender), 1, <<>>).m.invoked

\* C21 as stated: a matching message, whoever sent it, invokes the matching
\* subscribers of every live instance, and the same message from any other
\* origin or source makes the same invocations.
C21_AnySenderAllSubscribers ==
  [][\A key \in ViewerEvent :
       (last'.op = "deliver" /\ MatchedKey(event') = key)
         => /\ \A i \in Instances :
                 CallbacksOf(Of(i, invoked')) = ListOf(callbacks, i, key)
            /\ \A sender \in Senders : InvocationsFrom(event', sender) = invoked']_vars

\* C21 amended: a matching message, whoever sent it, invokes the matching
\* subscribers of every live instance, those of each instance in order up to
\* and including its first that throws, and the same message from any other
\* origin or source makes the same invocations.
C21_AnySenderUpToFirstThrow ==
  [][\A key \in ViewerEvent :
       (last'.op = "deliver" /\ MatchedKey(event') = key)
         => /\ \A i \in Instances :
                 CallbacksOf(Of(i, invoked'))
                   = SubSeq(ListOf(callbacks, i, key), 1,
                            FirstThrow(ListOf(callbacks, i, key)))
            /\ \A sender \in Senders : InvocationsFrom(event', sender) = invoked']_vars

\* A message from another frame of another origin was delivered to two
\* instances with one subscriber each: both were invoked, the one of B after
\* the one of A threw.
C21_Witness ==
  /\ last.op = "deliver"
  /\ last.arg = [origin |-> "https://other.example", source |-> "other"]
  /\ status = [i \in Instances |-> "live"]
  /\ \E key \in ViewerEvent :
       /\ MatchedKey(event) = key
       /\ ListOf(callbacks, "A", key) = <<"bad">>
       /\ ListOf(callbacks, "B", key) = <<"f">>
  /\ CallbacksOf(Of("A", invoked)) = <<"bad">>
  /\ CallbacksOf(Of("B", invoked)) = <<"f">>

\* C22: a subscription invokes nothing; a registration of the screenshot event
\* with no thrower subscribed before it has been invoked once for each
\* screenshot message delivered after it was made, whatever was delivered
\* before; a registration of an event no message matched has never been
\* invoked; a message whose event has no subscriber invokes nothing.
C22_NoReplay ==
  /\ last.op = "subscribe" => invoked = <<>>
  /\ \A i \in Instances : \A key \in ViewerEvent :
       LET list == ListOf(callbacks, i, key) IN
       /\ \A k \in 1..Len(list) :
            k <= FirstThrow(list)
              => CallsOf(i, key, k)
                   = IF key = ScreenshotTaken THEN streak - joined[i][key][k] ELSE 0
       /\ (last.op = "deliver" /\ MatchedKey(event) = key /\ list = <<>>)
            => Of(i, invoked) = <<>>

\* A screenshot message was delivered before anything was subscribed, then a
\* callback was subscribed, then a second message was delivered: the callback
\* has been invoked once.
C22_Witness ==
  /\ last.op = "deliver"
  /\ streak = 2
  /\ ListOf(callbacks, "A", ScreenshotTaken) = <<"f">>
  /\ joined["A"][ScreenshotTaken] = <<1>>
  /\ CallsOf("A", ScreenshotTaken, 1) = 1
  /\ Len(invoked) = 1

====
